---- MODULE Spec2Model ----
(***************************************************************************)
(* Project-planner pipeline: work-package planning (orchestrator_node),    *)
(* concurrent per-package generation (category_worker_node) and the        *)
(* deterministic merge (aggregator_node), followed by the renderer.        *)
(*                                                                         *)
(* Python values are represented as follows.                               *)
(*   str           a TLA+ string (Len, SubSeq and \o act on its characters)*)
(*   None          the record PyNone                                       *)
(*   Optional[str] PyNone or the record Str(s)                             *)
(*   dict with string keys, whose order matters (worker_prompts,           *)
(*                 worker_outputs): a sequence of <<key, value>> pairs in  *)
(*                 insertion order, wrapped as Dict(items)                 *)
(*   task / work package (free-form dict): a function from the keys that   *)
(*                 are present to their values; an absent key is not in    *)
(*                 the DOMAIN                                              *)
(*   datetime      the number of days since 1970-01-01 (the time of day    *)
(*                 is dropped by every strftime the code applies)          *)
(***************************************************************************)
EXTENDS Integers, Sequences, FiniteSets, TLC

VARIABLES
    pc,                      \* the graph node about to run ("END" when done)
    graph,                   \* which graph was built: "cli" or "api"
    env,                     \* the run's inputs: answers, backend replies, today
    questionnaire_responses, \* GraphState fields (src/state.py)
    validation_result,
    enriched_prompt,
    plan_type,
    orchestrator_plan,
    worker_outputs,
    aggregated_json,
    excel_path,
    error_message,
    futures,                 \* category_worker_node: worker_key -> future
    all_worker_outputs,      \* category_worker_node locals
    total_tasks,
    completed,
    calls,                   \* backend prompts invoked so far (in order)
    visited,                 \* graph nodes executed so far (in order)
    returned,                \* the value of a function applied on its own
    workbook                 \* the file excel_generator_node saved (None if none)

vars == << pc, graph, env, questionnaire_responses, validation_result,
           enriched_prompt, plan_type, orchestrator_plan, worker_outputs,
           aggregated_json, excel_path, error_message, futures,
           all_worker_outputs, total_tasks, completed, calls, visited,
           returned, workbook >>

----------------------------------------------------------------------------
(* Bounds of the model *)

\* most work packages in one planner reply
MaxPkgs == 2

\* most tasks in the package-result mappings drawn for the aggregator
MaxAggTasks == 3

----------------------------------------------------------------------------
(* Python values *)

PyNone == [py |-> "None"]

Str(s) == [py |-> "str", v |-> s]

Dict(items) == [py |-> "dict", items |-> items]

EmptyDict == Dict(<< >>)

\* a variant that tests "x is None" only
IsNone(x) == x = PyNone

\* Python truthiness of an Optional[dict] / Optional[str]: "not x".
\* state.get(key, default) on a GraphState made by create_initial_state
\* never uses the default: every key is present, so None comes back.
Falsy(x) ==
    \/ x = PyNone
    \/ x.py = "dict" /\ x.items = << >>
    \/ x.py = "str" /\ x.v = ""

\* list(d.keys()): the keys in insertion order
DictKeys(d) == [i \in 1..Len(d.items) |-> d.items[i][1]]

DictHas(d, k) == \E i \in 1..Len(d.items) : d.items[i][1] = k

DictGet(d, k) ==
    LET i == CHOOSE j \in 1..Len(d.items) : d.items[j][1] = k
    IN  d.items[i][2]

\* d[k] = v : an existing key keeps its position, a new key is appended
DictSet(d, k, v) ==
    IF DictHas(d, k)
    THEN Dict([i \in 1..Len(d.items) |->
                 IF d.items[i][1] = k THEN <<k, v>> ELSE d.items[i]])
    ELSE Dict(Append(d.items, <<k, v>>))

\* task.get(f, default) on a free-form record
Get(t, f, default) == IF f \in DOMAIN t THEN t[f] ELSE default

\* task[f] = v
Put(t, f, v) == [x \in (DOMAIN t) \cup {f} |-> IF x = f THEN v ELSE t[x]]

Min(a, b) == IF a < b THEN a ELSE b

Max(a, b) == IF a > b THEN a ELSE b

----------------------------------------------------------------------------
(* Strings *)

CharAt(s, i) == SubSeq(s, i, i)

\* s.find(sub) >= 0, i.e. "sub in s"
Contains(s, sub) ==
    \E i \in 1..(Len(s) - Len(sub) + 1) : SubSeq(s, i, i + Len(sub) - 1) = sub

DigitChars == {"0", "1", "2", "3", "4", "5", "6", "7", "8", "9"}

DigitVal(c) ==
    CASE c = "0" -> 0 [] c = "1" -> 1 [] c = "2" -> 2 [] c = "3" -> 3
      [] c = "4" -> 4 [] c = "5" -> 5 [] c = "6" -> 6 [] c = "7" -> 7
      [] c = "8" -> 8 [] c = "9" -> 9

\* int(s) for a string of decimal digits
RECURSIVE IntOf(_)
IntOf(s) ==
    IF Len(s) = 0 THEN 0
    ELSE 10 * IntOf(SubSeq(s, 1, Len(s) - 1)) + DigitVal(CharAt(s, Len(s)))

\* str.lower() on the letters the duration strings use
LowerChar(c) ==
    CASE c = "W" -> "w" [] c = "E" -> "e" [] c = "K" -> "k" [] c = "M" -> "m"
      [] c = "O" -> "o" [] c = "N" -> "n" [] c = "T" -> "t" [] c = "H" -> "h"
      [] c = "D" -> "d" [] c = "A" -> "a" [] c = "Y" -> "y" [] c = "S" -> "s"
      [] OTHER -> c

RECURSIVE Lower(_)
Lower(s) ==
    IF Len(s) = 0 THEN ""
    ELSE LowerChar(CharAt(s, 1)) \o Lower(SubSeq(s, 2, Len(s)))

\* format spec 0Nd: decimal, left-padded with zeros to at least n characters
RECURSIVE ZeroPad(_, _)
ZeroPad(s, n) == IF Len(s) >= n THEN s ELSE ZeroPad("0" \o s, n)

\* code-point order of the characters that occur in worker keys
KeyAlphabet == "0123456789_ekorw"

Ord(c) == CHOOSE i \in 1..Len(KeyAlphabet) : CharAt(KeyAlphabet, i) = c

\* Python's a < b on str: lexicographic by code point, a proper prefix first
RECURSIVE StrLess(_, _)
StrLess(a, b) ==
    IF Len(b) = 0 THEN FALSE
    ELSE IF Len(a) = 0 THEN TRUE
    ELSE IF CharAt(a, 1) = CharAt(b, 1)
         THEN StrLess(SubSeq(a, 2, Len(a)), SubSeq(b, 2, Len(b)))
         ELSE Ord(CharAt(a, 1)) < Ord(CharAt(b, 1))

\* sorted(keys) for a list of distinct strings: insertion into a sorted list
RECURSIVE InsertSorted(_, _)
InsertSorted(k, s) ==
    IF Len(s) = 0 THEN << k >>
    ELSE IF StrLess(k, Head(s)) THEN << k >> \o s
    ELSE << Head(s) >> \o InsertSorted(k, Tail(s))

RECURSIVE Sorted(_)
Sorted(keys) ==
    IF Len(keys) = 0 THEN << >>
    ELSE InsertSorted(Head(keys), Sorted(Tail(keys)))

----------------------------------------------------------------------------
(* Calendar: datetime, strftime("%Y-%m-%d"), strptime(s, "%Y-%m-%d") *)

\* date(y, m, d) as days since 1970-01-01 (proleptic Gregorian calendar)
DaysFromCivil(y, m, d) ==
    LET yy  == IF m <= 2 THEN y - 1 ELSE y
        era == yy \div 400
        yoe == yy - era * 400
        mp  == IF m > 2 THEN m - 3 ELSE m + 9
        doy == (153 * mp + 2) \div 5 + d - 1
        doe == yoe * 365 + yoe \div 4 - yoe \div 100 + doy
    IN  era * 146097 + doe - 719468

\* the <<year, month, day>> of a day number
CivilFromDays(z) ==
    LET zz  == z + 719468
        era == zz \div 146097
        doe == zz - era * 146097
        yoe == (doe - doe \div 1460 + doe \div 36524 - doe \div 146096) \div 365
        doy == doe - (365 * yoe + yoe \div 4 - yoe \div 100)
        mp  == (5 * doy + 2) \div 153
        d   == doy - (153 * mp + 2) \div 5 + 1
        m   == IF mp < 10 THEN mp + 3 ELSE mp - 9
        y   == yoe + era * 400
    IN  << IF m <= 2 THEN y + 1 ELSE y, m, d >>

\* datetime.weekday(): Monday is 0, Sunday is 6
Weekday(z) == (z + 3) % 7

IsLeap(y) == (y % 4 = 0 /\ y % 100 # 0) \/ y % 400 = 0

DaysInMonth(y, m) ==
    IF m = 2 THEN (IF IsLeap(y) THEN 29 ELSE 28)
    ELSE IF m \in {4, 6, 9, 11} THEN 30 ELSE 31

\* dt.strftime("%Y-%m-%d")
Strftime(z) ==
    LET c == CivilFromDays(z)
    IN  ZeroPad(ToString(c[1]), 4) \o "-" \o ZeroPad(ToString(c[2]), 2)
          \o "-" \o ZeroPad(ToString(c[3]), 2)

AllDigits(s) == \A i \in 1..Len(s) : CharAt(s, i) \in DigitChars

\* datetime.strptime(s, "%Y-%m-%d"): ok = FALSE stands for ValueError.
\* %Y takes four digits, %m and %d one or two, and the date must exist.
Strptime(s) ==
    LET dashes == {i \in 1..Len(s) : CharAt(s, i) = "-"}
        bad    == [ok |-> FALSE, day |-> 0]
    IN  IF Cardinality(dashes) # 2 THEN bad
        ELSE LET d1 == CHOOSE i \in dashes : \A j \in dashes : i <= j
                 d2 == CHOOSE i \in dashes : \A j \in dashes : i >= j
                 ys == SubSeq(s, 1, d1 - 1)
                 ms == SubSeq(s, d1 + 1, d2 - 1)
                 ds == SubSeq(s, d2 + 1, Len(s))
             IN  IF /\ Len(ys) = 4 /\ AllDigits(ys)
                    /\ Len(ms) \in {1, 2} /\ AllDigits(ms)
                    /\ Len(ds) \in {1, 2} /\ AllDigits(ds)
                    /\ IntOf(ys) >= 1
                    /\ IntOf(ms) \in 1..12
                    /\ IntOf(ds) >= 1
                    /\ IntOf(ds) <= DaysInMonth(IntOf(ys), IntOf(ms))
                 THEN [ok |-> TRUE,
                       day |-> DaysFromCivil(IntOf(ys), IntOf(ms), IntOf(ds))]
                 ELSE bad

\* a variant without the adjustment of a zero distance: the Monday on or
\* after today
NextMondayOrToday(today) == today + ((7 - Weekday(today)) % 7)

\* the next Monday strictly after today
NextMonday(today) ==
    LET days_until_monday == (7 - Weekday(today)) % 7
    IN  today + (IF days_until_monday = 0 THEN 7 ELSE days_until_monday)

\* a variant whose "Within 1 Month" branch applies the Immediate rule to
\* today + 30
calculate_project_start_date_strict(start_date_preference, today) ==
    IF start_date_preference = "Immediate"
    THEN Strftime(NextMonday(today))
    ELSE IF start_date_preference = "Within 1 Month"
    THEN Strftime(NextMonday(today + 30))
    ELSE LET p == Strptime(start_date_preference)
         IN  IF p.ok THEN Strftime(p.day) ELSE Strftime(NextMonday(today))

calculate_project_start_date(start_date_preference, today) ==
    IF start_date_preference = "Immediate"
    THEN Strftime(NextMonday(today))
    ELSE IF start_date_preference = "Within 1 Month"
    THEN LET start_date == today + 30
         IN  Strftime(start_date + ((7 - Weekday(start_date)) % 7))
    ELSE LET p == Strptime(start_date_preference)
         IN  IF p.ok THEN Strftime(p.day) ELSE Strftime(NextMonday(today))

----------------------------------------------------------------------------
(* aggregator.py: parse_duration, calculate_sequential_dates,              *)
(* add_task_identifiers                                                    *)

\* re.findall(r'\d+', s)[0]: the first maximal run of digits ("" if none)
FirstNumber(s) ==
    LET digs == {i \in 1..Len(s) : CharAt(s, i) \in DigitChars}
    IN  IF digs = {} THEN ""
        ELSE LET a == CHOOSE i \in digs : \A j \in digs : i <= j
                 b == CHOOSE i \in a..Len(s) :
                        /\ \A j \in a..i : j \in digs
                        /\ (i = Len(s) \/ (i + 1) \notin digs)
             IN  SubSeq(s, a, b)

DefaultDuration == 5

\* a variant that tests for "month" before "week"
parse_duration_month_first(duration_str) ==
    IF duration_str = "" THEN DefaultDuration
    ELSE LET s       == Lower(duration_str)
             numbers == FirstNumber(s)
         IN  IF numbers = "" THEN DefaultDuration
             ELSE IF Contains(s, "month") THEN IntOf(numbers) * 30
             ELSE IF Contains(s, "week") THEN IntOf(numbers) * 7
             ELSE Max(1, IntOf(numbers))

parse_duration(duration_str) ==
    IF duration_str = "" THEN DefaultDuration
    ELSE LET s       == Lower(duration_str)
             numbers == FirstNumber(s)
         IN  IF numbers = "" THEN DefaultDuration
             ELSE IF Contains(s, "week") THEN IntOf(numbers) * 7
             ELSE IF Contains(s, "month") THEN IntOf(numbers) * 30
             ELSE Max(1, IntOf(numbers))

\* Variants of the scheduling loop, each with one line changed:
\*   "phase"   phase_dates[phase] = task_start
\*   "cursor"  current_date = task_end, whether later or not
\*   "unit"    a missing task_duration is filled in as weeks
RECURSIVE ScheduleVariant(_, _, _, _)
ScheduleVariant(tasks, n, start, v) ==
    IF n = 0
    THEN [tasks |-> tasks, current_date |-> start, phase_dates |-> << >>]
    ELSE LET acc   == ScheduleVariant(tasks, n - 1, start, v)
             task  == acc.tasks[n]
             phase == Get(task, "phase_name", "General")
             duration_days == parse_duration(Get(task, "task_duration", "5 days"))
             task_start == IF phase \in DOMAIN acc.phase_dates
                           THEN acc.phase_dates[phase]
                           ELSE acc.current_date
             task_end == task_start + duration_days
             t1 == Put(task, "task_start_date", Strftime(task_start))
             t2 == Put(t1, "task_end_date", Strftime(task_end))
             t3 == IF Get(task, "task_duration", "") = ""
                   THEN Put(t2, "task_duration",
                            ToString(duration_days)
                            \o (IF v = "unit" THEN " weeks" ELSE " days"))
                   ELSE t2
         IN  [tasks |-> [acc.tasks EXCEPT ![n] = t3],
              current_date |-> IF v = "cursor" \/ task_end > acc.current_date
                               THEN task_end ELSE acc.current_date,
              phase_dates |-> [p \in (DOMAIN acc.phase_dates) \cup {phase} |->
                                 IF p = phase
                                 THEN (IF v = "phase" THEN task_start
                                       ELSE task_end)
                                 ELSE acc.phase_dates[p]]]

ScheduleLoopPhaseFromStart(tasks, n, start) ==
    ScheduleVariant(tasks, n, start, "phase")

ScheduleLoopCursorToEnd(tasks, n, start) ==
    ScheduleVariant(tasks, n, start, "cursor")

ScheduleLoopFillWeeks(tasks, n, start) ==
    ScheduleVariant(tasks, n, start, "unit")

\* One pass of the scheduling loop over tasks[1..n]; the accumulator holds
\* the tasks rewritten so far, current_date and phase_dates (a function
\* from the phases seen to their cursor).
RECURSIVE ScheduleLoop(_, _, _)
ScheduleLoop(tasks, n, start) ==
    IF n = 0
    THEN [tasks |-> tasks, current_date |-> start, phase_dates |-> << >>]
    ELSE LET acc   == ScheduleLoop(tasks, n - 1, start)
             task  == acc.tasks[n]
             phase == Get(task, "phase_name", "General")
             duration_days == parse_duration(Get(task, "task_duration", "5 days"))
             task_start == IF phase \in DOMAIN acc.phase_dates
                           THEN acc.phase_dates[phase]
                           ELSE acc.current_date
             task_end == task_start + duration_days
             t1 == Put(task, "task_start_date", Strftime(task_start))
             t2 == Put(t1, "task_end_date", Strftime(task_end))
             t3 == IF Get(task, "task_duration", "") = ""
                   THEN Put(t2, "task_duration",
                            ToString(duration_days) \o " days")
                   ELSE t2
         IN  [tasks |-> [acc.tasks EXCEPT ![n] = t3],
              current_date |-> IF task_end > acc.current_date
                               THEN task_end ELSE acc.current_date,
              phase_dates |-> [p \in (DOMAIN acc.phase_dates) \cup {phase} |->
                                 IF p = phase THEN task_end
                                 ELSE acc.phase_dates[p]]]

calculate_sequential_dates(tasks, start_date, today) ==
    LET p == Strptime(start_date)
        current_date == IF p.ok THEN p.day ELSE today
    IN  ScheduleLoop(tasks, Len(tasks), current_date).tasks

\* a variant that numbers the tasks from zero
TaskIdFromZero(pos) == "T" \o ZeroPad(ToString(pos - 1), 4)

\* f"T{i+1:04d}" for the task at 0-based index i, given here 1-based
TaskId(pos) == "T" \o ZeroPad(ToString(pos), 4)

\* f"{task.get('phase_name', '')}|{task.get('activity_name', '')}"
GroupKey(task) ==
    Get(task, "phase_name", "") \o "|" \o Get(task, "activity_name", "")

\* phase_groups after the first loop has seen tasks[1..n]: an ordered dict
\* from group key to the list of (position, task_id) of its members
RECURSIVE PhaseGroups(_, _)
PhaseGroups(tasks, n) ==
    IF n = 0 THEN EmptyDict
    ELSE LET g   == PhaseGroups(tasks, n - 1)
             key == GroupKey(tasks[n])
             old == IF DictHas(g, key) THEN DictGet(g, key) ELSE << >>
         IN  DictSet(g, key, Append(old, << n, TaskId(n) >>))

\* the second loop's effect on the task at position i
LinkTask(task, i, groups) ==
    LET group == DictGet(groups, GroupKey(task))
        idx   == CHOOSE j \in 1..Len(group) : group[j][1] = i
        t1    == IF idx > 1
                 THEN Put(Put(task, "predecessor", group[idx - 1][2]),
                          "dependency_type", "FS")
                 ELSE task
    IN  IF idx < Len(group) THEN Put(t1, "successor", group[idx + 1][2])
        ELSE t1

add_task_identifiers(tasks, ptype) ==
    LET ided   == [i \in 1..Len(tasks) |-> Put(tasks[i], "task_id", TaskId(i))]
        groups == PhaseGroups(tasks, Len(tasks))
    IN  IF ptype = "detailed"
        THEN [i \in 1..Len(ided) |-> LinkTask(ided[i], i, groups)]
        ELSE ided

----------------------------------------------------------------------------
(* Backend replies and extract_json_from_response                          *)
(*                                                                         *)
(* A reply either raises (with the exception's message) or carries a text. *)
(* A text is a sequence of tokens: a code fence (three backticks), the     *)
(* word json, an opening or closing brace, one "key": value member, a      *)
(* JSON array, prose, or JSON nested deeper than the decoder's recursion   *)
(* limit: an array ("deep") or a "key": array member ("deepmember").       *)

Fence == [t |-> "fence"]

Lang == [t |-> "json"]

LBrace == [t |-> "{"]

RBrace == [t |-> "}"]

Prose == [t |-> "prose"]

ArrayTok == [t |-> "[]"]

Member(k, v) == [t |-> "member", k |-> k, v |-> v]

DeepTok == [t |-> "deep"]

DeepMember == [t |-> "deepmember"]

RecursionErrorMsg ==
    "maximum recursion depth exceeded while decoding a JSON array from a unicode string"

Raises(msg) == [raises |-> TRUE, msg |-> msg]

Text(toks) == [raises |-> FALSE, content |-> toks]

\* positions of the tokens of kind t in text
Positions(text, t) == {i \in 1..Len(text) : text[i].t = t}

SetMin(S) == CHOOSE i \in S : \A j \in S : i <= j

SetMax(S) == CHOOSE i \in S : \A j \in S : i >= j

\* re.findall(json_pattern, response): the bodies of the fenced blocks,
\* fences paired left to right, an optional json tag after the opening
\* fence dropped
RECURSIVE FencedBlocks(_)
FencedBlocks(text) ==
    LET f == Positions(text, "fence")
    IN  IF Cardinality(f) < 2 THEN << >>
        ELSE LET a    == SetMin(f)
                 b    == SetMin(f \ {a})
                 raw  == SubSeq(text, a + 1, b - 1)
                 body == IF Len(raw) > 0 /\ raw[1].t = "json"
                         THEN Tail(raw) ELSE raw
             IN  << body >> \o FencedBlocks(SubSeq(text, b + 1, Len(text)))

\* json.loads(span): ok = FALSE stands for json.JSONDecodeError, kind
\* "raise" for the RecursionError the decoder raises once it has gone into
\* the deep array, whatever follows it; a parsed object is a function from
\* its keys to their values
JsonLoads(toks) ==
    IF \/ Len(toks) >= 1 /\ toks[1].t = "deep"
       \/ Len(toks) >= 2 /\ toks[1].t = "{" /\ toks[2].t = "deepmember"
    THEN [ok |-> FALSE, kind |-> "raise", d |-> << >>]
    ELSE IF Len(toks) = 2 /\ toks[1].t = "{" /\ toks[2].t = "}"
    THEN [ok |-> TRUE, kind |-> "dict", d |-> << >>]
    ELSE IF /\ Len(toks) = 3 /\ toks[1].t = "{" /\ toks[2].t = "member"
            /\ toks[3].t = "}"
    THEN [ok |-> TRUE, kind |-> "dict", d |-> [k \in {toks[2].k} |-> toks[2].v]]
    ELSE IF Len(toks) = 1 /\ toks[1].t = "[]"
    THEN [ok |-> TRUE, kind |-> "list", d |-> << >>]
    ELSE [ok |-> FALSE, kind |-> "", d |-> << >>]

\* a token whose text has braces of its own: a member whose value is a
\* non-empty list of objects
Braced(tok) == tok.t = "member" /\ Len(tok.v) > 0

\* json.loads(response[start:end + 1]) with start = response.find('{') and
\* end = response.rfind('}'), or JSONDecodeError when either is -1.  A
\* brace found inside a member cuts the member: a span that starts there
\* is the member's first object and what follows it, a span that ends
\* there leaves the list open
BraceSpan(response) ==
    LET lb   == {i \in 1..Len(response) :
                   response[i].t = "{" \/ Braced(response[i])}
        rb   == {i \in 1..Len(response) :
                   response[i].t = "}" \/ Braced(response[i])}
        fail == [ok |-> FALSE, kind |-> "", d |-> << >>]
    IN  IF lb = {} \/ rb = {} THEN fail
        ELSE LET start == SetMin(lb)
                 end   == SetMax(rb)
             IN  IF Braced(response[start])
                 THEN IF start = end /\ Len(response[start].v) = 1
                      THEN [ok |-> TRUE, kind |-> "dict",
                            d |-> response[start].v[1]]
                      ELSE fail
                 ELSE IF Braced(response[end])
                 THEN IF response[start + 1].t = "deepmember"
                      THEN [ok |-> FALSE, kind |-> "raise", d |-> << >>]
                      ELSE fail
                 ELSE JsonLoads(SubSeq(response, start, end))

\* the first fenced block that parses, then the span from the first "{" to
\* the last "}", then the fallback value; only JSONDecodeError is caught,
\* so a span on which json.loads raises anything else ends the call (kind
\* "raise")
ExtractJson(response, fallback) ==
    LET matches == FencedBlocks(response)
        stop    == {i \in 1..Len(matches) :
                      JsonLoads(matches[i]).ok
                      \/ JsonLoads(matches[i]).kind = "raise"}
        span    == BraceSpan(response)
    IN  IF stop # {} THEN JsonLoads(matches[SetMin(stop)])
        ELSE IF span.ok \/ span.kind = "raise" THEN span
        ELSE [ok |-> TRUE, kind |-> "dict", d |-> fallback]

\* workers.py: the fallback is {"tasks": []}
extract_json_from_response(response) ==
    ExtractJson(response, [k \in {"tasks"} |-> << >>])

\* orchestrator.py: the fallback is {}
orchestrator_extract_json(response) == ExtractJson(response, << >>)

----------------------------------------------------------------------------
(* workers.py: process_single_worker *)

ErrorLimit == 50

\* str(e)[:50]
Truncate(msg) == SubSeq(msg, 1, Min(ErrorLimit, Len(msg)))

AttributeErrorMsg == "'list' object has no attribute 'get'"

\* a variant that records the whole message of the exception
WorkerFailureWhole(worker_key, package_name, msg) ==
    [worker_key |-> worker_key, package_name |-> package_name,
     tasks |-> << >>, task_count |-> 0, success |-> FALSE, error |-> msg]

WorkerFailure(worker_key, package_name, msg) ==
    [worker_key |-> worker_key, package_name |-> package_name,
     tasks |-> << >>, task_count |-> 0, success |-> FALSE,
     error |-> Truncate(msg)]

\* a variant that treats a reply without tasks as a failure of the package
process_single_worker_strict(worker_key, worker_info, reply) ==
    LET package_name == worker_info.package_name
    IN  IF reply.raises
        THEN WorkerFailure(worker_key, package_name, reply.msg)
        ELSE LET result == extract_json_from_response(reply.content)
             IN  IF result.kind = "raise"
                 THEN WorkerFailure(worker_key, package_name, RecursionErrorMsg)
                 ELSE IF result.kind # "dict"
                 THEN WorkerFailure(worker_key, package_name, AttributeErrorMsg)
                 ELSE LET tasks == Get(result.d, "tasks", << >>)
                      IN  IF tasks = << >>
                          THEN WorkerFailure(worker_key, package_name,
                                             "No tasks in response")
                          ELSE [worker_key |-> worker_key,
                                package_name |-> package_name,
                                tasks |-> tasks,
                                task_count |-> Len(tasks),
                                success |-> TRUE]

\* reply is what llm.invoke(prompt) does for this worker's prompt
process_single_worker(worker_key, worker_info, reply) ==
    LET package_name == worker_info.package_name
    IN  IF reply.raises
        THEN WorkerFailure(worker_key, package_name, reply.msg)
        ELSE LET result == extract_json_from_response(reply.content)
             IN  IF result.kind = "raise"
                 THEN WorkerFailure(worker_key, package_name, RecursionErrorMsg)
                 ELSE IF result.kind # "dict"
                 THEN WorkerFailure(worker_key, package_name, AttributeErrorMsg)
                 ELSE LET tasks == Get(result.d, "tasks", << >>)
                      IN  [worker_key |-> worker_key,
                           package_name |-> package_name,
                           tasks |-> tasks,
                           task_count |-> Len(tasks),
                           success |-> TRUE]

----------------------------------------------------------------------------
(* orchestrator.py: the worker prompts built from the planner's packages *)

TasksPerWorker == 13

\* create_worker_prompt: the base prompt with the package's name filled in
create_worker_prompt(base_prompt, pkg) ==
    base_prompt \o " ## YOUR WORK PACKAGE: " \o Get(pkg, "name", "")

\* the loop over work_packages[1..n] that fills worker_prompts
RECURSIVE WorkerPrompts(_, _, _)
WorkerPrompts(work_packages, n, base_prompt) ==
    IF n = 0 THEN EmptyDict
    ELSE LET worker_prompts == WorkerPrompts(work_packages, n - 1, base_prompt)
             pkg        == work_packages[n]
             worker_key == "worker_" \o
                           ToString(Get(pkg, "id", Len(worker_prompts.items) + 1))
         IN  DictSet(worker_prompts, worker_key,
                     [prompt |-> create_worker_prompt(base_prompt, pkg),
                      package_name |-> Get(pkg, "name", ""),
                      scope |-> Get(pkg, "scope", ""),
                      target_tasks |-> TasksPerWorker])

----------------------------------------------------------------------------
(* Graph state and nodes: the inputs of a run *)

\* "today" of the run: Thursday 2026-11-05
Today == DaysFromCivil(2026, 11, 5)

VillaScale == [number_of_villas |-> 50]

Answers(location, plan_level, start_date) ==
    [location |-> location, project_type |-> "Villa",
     project_scale |-> VillaScale, start_date |-> start_date,
     plan_level |-> plan_level]

\* questionnaire answers: two that pass validation and one that does not
ResponseChoices ==
    { Answers("Pune", "High-level Plan", "Immediate"),
      Answers("Pune", "Detailed Plan", "Immediate"),
      Answers("", "Detailed Plan", "Immediate") }

\* a work package of a planner reply: idc = 0 leaves the id out
Package(pos, idc) ==
    LET name == "Pkg" \o ToString(pos)
    IN  IF idc = 0 THEN [name |-> name, scope |-> "scope"]
        ELSE [id |-> idc, name |-> name, scope |-> "scope"]

IdChoices == {0, 2, 10}

PackageLists ==
    UNION { { [pos \in 1..n |-> Package(pos, ids[pos])] :
                ids \in [1..n -> IdChoices] } : n \in 1..MaxPkgs }

LongMessage == "Connection error: the backend did not answer within the time allowed"

\* what the backend does with the planner's prompt
PlannerReplies ==
    { Raises("rate limit") ,
      Text(<< Prose, LBrace, Member("work_packages", << >>) >>),
      Text(<< Fence, Lang, LBrace, Member("work_packages", << >>), RBrace,
              Fence >>) }
    \cup { Text(<< Prose, Fence, Lang, LBrace, Member("work_packages", pl),
                   RBrace, Fence >>) : pl \in PackageLists }

\* the tasks a backend writes for a package; tag makes task names unique
TwoTasks(tag) ==
    << [phase_name |-> "Site", activity_name |-> "Prep",
        task_name |-> tag \o "/1", task_duration |-> "2 weeks"],
       [activity_name |-> "Prep", task_name |-> tag \o "/2"] >>

OneTask(tag) ==
    << [phase_name |-> "Site", activity_name |-> "Prep",
        task_name |-> tag \o "/1", task_duration |-> "3 days",
        task_id |-> "X9", predecessor |-> "T0009"] >>

WorkerReplyKinds == {"raise", "malformed", "fenced", "bare", "array"}

\* what the backend does with the prompt of the package stored under tag
WorkerReply(kind, tag) ==
    CASE kind = "raise" -> Raises(LongMessage)
      [] kind = "malformed" ->
            Text(<< Prose, LBrace, Member("tasks", OneTask(tag)) >>)
      [] kind = "fenced" ->
            Text(<< Prose, Fence, Lang, LBrace, Member("tasks", TwoTasks(tag)),
                    RBrace, Fence, Prose >>)
      [] kind = "bare" ->
            Text(<< LBrace, Member("tasks", OneTask(tag)), RBrace >>)
      [] kind = "array" ->
            Text(<< Fence, Lang, ArrayTok, Fence >>)

\* the worker keys a planner reply leads to (none when planning fails)
KeysOf(reply) ==
    IF reply.raises THEN << >>
    ELSE LET plan == orchestrator_extract_json(reply.content)
             pkgs == IF plan.kind = "dict"
                     THEN Get(plan.d, "work_packages", << >>) ELSE << >>
         IN  DictKeys(WorkerPrompts(pkgs, Len(pkgs), ""))

Range(f) == {f[i] : i \in DOMAIN f}

Envs ==
    UNION { { [responses |-> r, planner |-> p, workers |-> w, today |-> Today] :
                w \in [Range(KeysOf(p)) -> WorkerReplyKinds] } :
            r \in ResponseChoices, p \in PlannerReplies }

----------------------------------------------------------------------------
(* Nodes of the graph (main.py build_graph, api.py build_api_graph) *)

\* create_initial_state(): every field None; no node has run
InitialState ==
    /\ questionnaire_responses = PyNone
    /\ validation_result = PyNone
    /\ enriched_prompt = PyNone
    /\ plan_type = PyNone
    /\ orchestrator_plan = PyNone
    /\ worker_outputs = PyNone
    /\ aggregated_json = PyNone
    /\ excel_path = PyNone
    /\ error_message = PyNone
    /\ futures = << >>
    /\ all_worker_outputs = EmptyDict
    /\ total_tasks = 0
    /\ completed = 0
    /\ calls = {}
    /\ visited = << >>
    /\ returned = PyNone
    /\ workbook = PyNone

Init ==
    /\ pc = "questionnaire"
    /\ graph \in {"cli", "api"}
    /\ env \in Envs
    /\ InitialState

Enter(node) == visited' = Append(visited, node)

\* questionnaire_node / questionnaire_node_with_input
QuestionnaireNode ==
    /\ pc = "questionnaire"
    /\ Enter("questionnaire")
    /\ questionnaire_responses' = env.responses
    /\ plan_type' = IF env.responses.plan_level = "Detailed Plan"
                    THEN Str("detailed") ELSE Str("high_level")
    /\ pc' = "validation"
    /\ UNCHANGED << workbook, returned, graph, env, validation_result, enriched_prompt,
                    orchestrator_plan, worker_outputs, aggregated_json,
                    excel_path, error_message, futures, all_worker_outputs,
                    total_tasks, completed, calls >>

PlanLevels == {"High-level Plan", "Detailed Plan"}

\* validate_required_fields, validate_project_scale, validate_numeric_fields
\* and validate_plan_level on a Villa project
ValidationErrors(responses) ==
    (IF responses.location = ""
     THEN << "Location is required (Question 1)" >> ELSE << >>)
    \o (IF Get(responses.project_scale, "number_of_villas", 0) = 0
        THEN << "Number of villas is required for Villa projects" >>
        ELSE << >>)
    \o (IF Get(responses.project_scale, "number_of_villas", 1) < 0
        THEN << "Number Of Villas must be a positive number" >> ELSE << >>)
    \o (IF responses.plan_level # "" /\ responses.plan_level \notin PlanLevels
        THEN << "Invalid plan level. Must be one of: High-level Plan, Detailed Plan" >>
        ELSE << >>)

\* "; ".join(errors)
RECURSIVE Join(_)
Join(errors) ==
    IF Len(errors) = 0 THEN ""
    ELSE IF Len(errors) = 1 THEN errors[1]
    ELSE errors[1] \o "; " \o Join(Tail(errors))

\* should_continue_after_validation (the API graph has a plain edge instead)
AfterValidation(result) ==
    IF graph = "cli"
    THEN (IF result.is_valid THEN "prompt" ELSE "error_handler")
    ELSE "prompt"

ValidationNode ==
    /\ pc = "validation"
    /\ Enter("validation")
    /\ LET result ==
             IF questionnaire_responses = PyNone
             THEN [is_valid |-> FALSE,
                   errors |-> << "No questionnaire responses found" >>]
             ELSE LET all_errors == ValidationErrors(questionnaire_responses)
                  IN  [is_valid |-> Len(all_errors) = 0, errors |-> all_errors]
       IN  /\ validation_result' = result
           /\ error_message' = IF result.is_valid THEN error_message
                               ELSE Str(Join(result.errors))
           /\ pc' = AfterValidation(result)
    /\ UNCHANGED << workbook, returned, graph, env, questionnaire_responses, enriched_prompt,
                    plan_type, orchestrator_plan, worker_outputs,
                    aggregated_json, excel_path, futures, all_worker_outputs,
                    total_tasks, completed, calls >>

ErrorHandlerNode ==
    /\ pc = "error_handler"
    /\ Enter("error_handler")
    /\ pc' = "END"
    /\ UNCHANGED << workbook, returned, graph, env, questionnaire_responses, validation_result,
                    enriched_prompt, plan_type, orchestrator_plan,
                    worker_outputs, aggregated_json, excel_path, error_message,
                    futures, all_worker_outputs, total_tasks, completed, calls >>

PromptNode ==
    /\ pc = "prompt"
    /\ Enter("prompt")
    /\ IF questionnaire_responses = PyNone
       THEN /\ error_message' =
                 Str("No questionnaire responses found for prompt generation")
            /\ UNCHANGED enriched_prompt
       ELSE /\ enriched_prompt' =
                 Str("Plan a " \o questionnaire_responses.project_type
                     \o " project starting "
                     \o calculate_project_start_date(
                            questionnaire_responses.start_date, env.today))
            /\ UNCHANGED error_message
    /\ pc' = "orchestrator"
    /\ UNCHANGED << workbook, returned, graph, env, questionnaire_responses, validation_result,
                    plan_type, orchestrator_plan, worker_outputs,
                    aggregated_json, excel_path, futures, all_worker_outputs,
                    total_tasks, completed, calls >>

\* orchestrator_node's outcome for the planner's reply: the plan it stores
\* or the message of the exception it catches
Orchestrate(reply, base_prompt, ptype) ==
    IF reply.raises THEN [ok |-> FALSE, msg |-> reply.msg, plan |-> PyNone]
    ELSE LET work_plan == orchestrator_extract_json(reply.content)
         IN  IF work_plan.kind = "raise"
             THEN [ok |-> FALSE, msg |-> RecursionErrorMsg, plan |-> PyNone]
             ELSE IF work_plan.kind # "dict"
             THEN [ok |-> FALSE, msg |-> AttributeErrorMsg, plan |-> PyNone]
             ELSE LET work_packages == Get(work_plan.d, "work_packages", << >>)
                  IN  IF Len(work_packages) = 0
                      THEN [ok |-> FALSE, msg |-> "No work packages received",
                            plan |-> PyNone]
                      ELSE LET wp == WorkerPrompts(work_packages,
                                         Len(work_packages), base_prompt)
                           IN  [ok |-> TRUE, msg |-> "",
                                plan |->
                                  [py |-> "dict",
                                   worker_prompts |-> wp,
                                   plan_type |-> ptype,
                                   min_tasks |-> IF ptype = "detailed"
                                                 THEN 400 ELSE 100,
                                   num_workers |-> Len(wp.items),
                                   tasks_per_worker |-> TasksPerWorker]]

OrchestratorNode ==
    /\ pc = "orchestrator"
    /\ Enter("orchestrator")
    /\ IF Falsy(enriched_prompt)
       THEN /\ error_message' =
                 Str("No enriched prompt found for orchestration")
            /\ UNCHANGED << orchestrator_plan, calls >>
       ELSE LET out == Orchestrate(env.planner, enriched_prompt.v, plan_type.v)
            IN  /\ calls' = calls \cup {"orchestrator_prompt"}
                /\ IF out.ok
                   THEN /\ orchestrator_plan' = out.plan
                        /\ UNCHANGED error_message
                   ELSE /\ error_message' =
                             Str("Orchestration failed: " \o out.msg)
                        /\ UNCHANGED orchestrator_plan
    /\ pc' = "category_workers"
    /\ UNCHANGED << workbook, returned, graph, env, questionnaire_responses, validation_result,
                    enriched_prompt, plan_type, worker_outputs,
                    aggregated_json, excel_path, futures, all_worker_outputs,
                    total_tasks, completed >>

----------------------------------------------------------------------------
(* category_worker_node: one future per worker prompt, collected as they   *)
(* complete                                                                *)

\* executor.submit(process_single_worker, worker_key, worker_info) for every
\* item of worker_prompts; without a plan the node returns at once
WorkersSubmit ==
    /\ pc = "category_workers"
    /\ Enter("category_workers")
    /\ IF orchestrator_plan = PyNone
       THEN /\ error_message' = Str("No orchestrator plan found")
            /\ pc' = "aggregator"
            /\ UNCHANGED << futures, all_worker_outputs, total_tasks, completed >>
       ELSE LET wp == orchestrator_plan.worker_prompts.items
            IN  /\ futures' = [i \in 1..Len(wp) |->
                                 [worker_key |-> wp[i][1],
                                  worker_info |-> wp[i][2],
                                  state |-> "running",
                                  result |-> PyNone]]
                /\ all_worker_outputs' = EmptyDict
                /\ total_tasks' = 0
                /\ completed' = 0
                /\ pc' = "as_completed"
                /\ UNCHANGED error_message
    /\ UNCHANGED << workbook, returned, graph, env, questionnaire_responses, validation_result,
                    enriched_prompt, plan_type, orchestrator_plan,
                    worker_outputs, aggregated_json, excel_path, calls >>

\* a variant in which the pool thread itself stores its result in the
\* shared mapping and adds to the shared counter
WorkerRunStoring(i) ==
    /\ pc = "as_completed"
    /\ futures[i].state = "running"
    /\ LET f == futures[i]
           reply == WorkerReply(env.workers[f.worker_key], f.worker_key)
           result == process_single_worker(f.worker_key, f.worker_info, reply)
       IN  /\ futures' = [futures EXCEPT ![i].state = "finished",
                                         ![i].result = result]
           /\ all_worker_outputs' =
                 DictSet(all_worker_outputs, result.worker_key,
                         [package_name |-> result.package_name,
                          tasks |-> result.tasks,
                          task_count |-> result.task_count])
           /\ total_tasks' = total_tasks + result.task_count
           /\ calls' = calls \cup {f.worker_info.prompt}
    /\ UNCHANGED << workbook, returned, pc, graph, env,
                    questionnaire_responses, validation_result,
                    enriched_prompt, plan_type, orchestrator_plan,
                    worker_outputs, aggregated_json, excel_path,
                    error_message, completed, visited >>

\* a pool thread runs process_single_worker to its return
WorkerRun(i) ==
    /\ pc = "as_completed"
    /\ futures[i].state = "running"
    /\ LET f == futures[i]
           reply == WorkerReply(env.workers[f.worker_key], f.worker_key)
       IN  /\ futures' = [futures EXCEPT
                 ![i].state = "finished",
                 ![i].result = process_single_worker(f.worker_key,
                                                     f.worker_info, reply)]
           /\ calls' = calls \cup {f.worker_info.prompt}
    /\ UNCHANGED << workbook, returned, pc, graph, env, questionnaire_responses, validation_result,
                    enriched_prompt, plan_type, orchestrator_plan,
                    worker_outputs, aggregated_json, excel_path, error_message,
                    all_worker_outputs, total_tasks, completed, visited >>

\* a variant that sends a failed package to its backend again instead of
\* storing the failure
CollectRetrying(i) ==
    /\ pc = "as_completed"
    /\ futures[i].state = "finished"
    /\ IF futures[i].result.success
       THEN LET result == futures[i].result
            IN  /\ completed' = completed + 1
                /\ all_worker_outputs' =
                      DictSet(all_worker_outputs, result.worker_key,
                              [package_name |-> result.package_name,
                               tasks |-> result.tasks,
                               task_count |-> result.task_count])
                /\ total_tasks' = total_tasks + result.task_count
                /\ futures' = [futures EXCEPT ![i].state = "collected"]
       ELSE /\ futures' = [futures EXCEPT ![i].state = "running",
                                          ![i].result = PyNone]
            /\ UNCHANGED << completed, all_worker_outputs, total_tasks >>
    /\ UNCHANGED << workbook, returned, pc, graph, env,
                    questionnaire_responses, validation_result,
                    enriched_prompt, plan_type, orchestrator_plan,
                    worker_outputs, aggregated_json, excel_path,
                    error_message, calls, visited >>

\* one iteration of "for future in as_completed(futures)"
Collect(i) ==
    /\ pc = "as_completed"
    /\ futures[i].state = "finished"
    /\ LET result == futures[i].result
       IN  /\ completed' = completed + 1
           /\ all_worker_outputs' =
                 DictSet(all_worker_outputs, result.worker_key,
                         [package_name |-> result.package_name,
                          tasks |-> result.tasks,
                          task_count |-> result.task_count])
           /\ total_tasks' = total_tasks + result.task_count
    /\ futures' = [futures EXCEPT ![i].state = "collected"]
    /\ UNCHANGED << workbook, returned, pc, graph, env, questionnaire_responses, validation_result,
                    enriched_prompt, plan_type, orchestrator_plan,
                    worker_outputs, aggregated_json, excel_path, error_message,
                    calls, visited >>

\* a variant that stops waiting at the first collected result
FirstCollected == \E i \in 1..Len(futures) : futures[i].state = "collected"

\* as_completed is exhausted once every future has been yielded; the with
\* block ends and the node stores the mapping
AllCollected == \A i \in 1..Len(futures) : futures[i].state = "collected"

WorkersReturn ==
    /\ pc = "as_completed"
    /\ AllCollected
    /\ worker_outputs' = all_worker_outputs
    /\ pc' = "aggregator"
    /\ UNCHANGED << workbook, returned, graph, env, questionnaire_responses, validation_result,
                    enriched_prompt, plan_type, orchestrator_plan,
                    aggregated_json, excel_path, error_message, futures,
                    all_worker_outputs, total_tasks, completed, calls, visited >>

----------------------------------------------------------------------------
(* aggregator_node *)

\* a variant that writes the package name whether or not the task has a
\* phase_name
BackfillPhaseAlways(task, package_name) ==
    Put(task, "phase_name", package_name)

\* "if not task.get('phase_name'): task['phase_name'] = package_name"
BackfillPhase(task, package_name) ==
    IF Get(task, "phase_name", "") = ""
    THEN Put(task, "phase_name", package_name) ELSE task

\* a variant that visits the packages in stored order, without sorting
KeyOrderAsStored(outputs) == DictKeys(outputs)

\* the order in which the packages are visited
KeyOrder(outputs) == Sorted(DictKeys(outputs))

\* a variant that puts every package's tasks in front of the earlier ones
RECURSIVE FlattenPrepending(_, _, _)
FlattenPrepending(outputs, keys, n) ==
    IF n = 0 THEN << >>
    ELSE LET output == DictGet(outputs, keys[n])
         IN  [i \in 1..Len(output.tasks) |->
                BackfillPhase(output.tasks[i], output.package_name)]
             \o FlattenPrepending(outputs, keys, n - 1)

\* a variant that extends all_tasks twice with every package's tasks
RECURSIVE FlattenTwice(_, _, _)
FlattenTwice(outputs, keys, n) ==
    IF n = 0 THEN << >>
    ELSE LET output == DictGet(outputs, keys[n])
             tasks  == [i \in 1..Len(output.tasks) |->
                          BackfillPhase(output.tasks[i], output.package_name)]
         IN  FlattenTwice(outputs, keys, n - 1) \o tasks \o tasks

\* all_tasks after the first n keys of the visiting order
RECURSIVE Flatten(_, _, _)
Flatten(outputs, keys, n) ==
    IF n = 0 THEN << >>
    ELSE LET output == DictGet(outputs, keys[n])
         IN  Flatten(outputs, keys, n - 1) \o
             [i \in 1..Len(output.tasks) |->
                BackfillPhase(output.tasks[i], output.package_name)]

\* the final task list: flattened, identified and, in detailed mode, dated
AggregateTasks(outputs, ptype, responses, today) ==
    LET keys      == KeyOrder(outputs)
        all_tasks == add_task_identifiers(Flatten(outputs, keys, Len(keys)), ptype)
    IN  IF ptype = "detailed"
        THEN calculate_sequential_dates(all_tasks,
                 calculate_project_start_date(responses.start_date, today),
                 today)
        ELSE all_tasks

\* The task dicts of all_tasks are the very objects held in the packages'
\* task lists, so what the node writes into them shows in worker_outputs.
RECURSIVE Offset(_, _, _)
Offset(outputs, keys, n) ==
    IF n = 0 THEN 0
    ELSE Offset(outputs, keys, n - 1) + Len(DictGet(outputs, keys[n]).tasks)

Aliased(outputs, all_tasks) ==
    LET keys == KeyOrder(outputs)
        pos(k) == CHOOSE n \in 1..Len(keys) : keys[n] = k
    IN  Dict([j \in 1..Len(outputs.items) |->
          LET k   == outputs.items[j][1]
              out == outputs.items[j][2]
              off == Offset(outputs, keys, pos(k) - 1)
          IN  << k, [out EXCEPT !.tasks =
                       [i \in 1..Len(out.tasks) |-> all_tasks[off + i]]] >>])

AggregatorNode ==
    /\ pc = "aggregator"
    /\ Enter("aggregator")
    /\ IF Falsy(worker_outputs)
       THEN /\ error_message' = Str("No worker outputs found")
            /\ pc' = "excel_generator"
            /\ UNCHANGED << aggregated_json, worker_outputs >>
       ELSE IF orchestrator_plan = PyNone
       THEN \* orchestrator_plan.get("min_tasks", 100) raises AttributeError
            /\ pc' = "RAISED"
            /\ UNCHANGED << aggregated_json, worker_outputs, error_message >>
       ELSE LET responses == questionnaire_responses
                all_tasks == AggregateTasks(worker_outputs, plan_type.v,
                                            responses, env.today)
            IN  /\ aggregated_json' =
                     [py |-> "dict",
                      project_info |->
                        [location |-> responses.location,
                         project_type |-> responses.project_type,
                         plan_level |-> responses.plan_level,
                         start_date |-> responses.start_date,
                         project_scale |-> responses.project_scale,
                         generated_at |-> Strftime(env.today)],
                      plan_type |-> plan_type.v,
                      tasks |-> all_tasks,
                      total_tasks |-> Len(all_tasks)]
                /\ worker_outputs' = Aliased(worker_outputs, all_tasks)
                /\ pc' = "excel_generator"
                /\ UNCHANGED error_message
    /\ UNCHANGED << workbook, returned, graph, env, questionnaire_responses, validation_result,
                    enriched_prompt, plan_type, orchestrator_plan, excel_path,
                    futures, all_worker_outputs, total_tasks, completed, calls >>

----------------------------------------------------------------------------
(* excel_generator_node *)

\* config.py
HIGH_LEVEL_COLUMNS ==
    << "Phase Name", "Activity Name", "Task Name", "Task Category",
       "Task Duration" >>

DETAILED_COLUMNS ==
    << "Phase Name", "Activity Name", "Task Name", "Task Category",
       "Task Start Date", "Task End Date", "Work Quantity", "Work Rate",
       "Work UOM", "Task Description", "Priority", "Predecessor",
       "Dependency Type", "Successor" >>

\* column_key_map of get_task_value
ColumnKey(column) ==
    CASE column = "Phase Name"       -> "phase_name"
      [] column = "Activity Name"    -> "activity_name"
      [] column = "Task Name"        -> "task_name"
      [] column = "Task Category"    -> "task_category"
      [] column = "Task Duration"    -> "task_duration"
      [] column = "Task Start Date"  -> "task_start_date"
      [] column = "Task End Date"    -> "task_end_date"
      [] column = "Work Quantity"    -> "work_quantity"
      [] column = "Work Rate"        -> "work_rate"
      [] column = "Work UOM"         -> "work_uom"
      [] column = "Task Description" -> "task_description"
      [] column = "Priority"         -> "priority"
      [] column = "Predecessor"      -> "predecessor"
      [] column = "Dependency Type"  -> "dependency_type"
      [] column = "Successor"        -> "successor"

get_task_value(task, column) == Get(task, ColumnKey(column), "")

\* the Project Plan sheet: the header row, then one row for every task
ProjectPlanSheet(tasks, columns) ==
    [py |-> "workbook",
     header |-> columns,
     rows |-> [i \in 1..Len(tasks) |->
                 [c \in 1..Len(columns) |-> get_task_value(tasks[i], columns[c])]]]

ExcelGeneratorNode ==
    /\ pc = "excel_generator"
    /\ Enter("excel_generator")
    /\ IF aggregated_json = PyNone
       THEN /\ error_message' =
                 Str("No aggregated JSON found for Excel generation")
            /\ UNCHANGED << excel_path, workbook >>
       ELSE LET columns == IF aggregated_json.plan_type = "detailed"
                           THEN DETAILED_COLUMNS ELSE HIGH_LEVEL_COLUMNS
            IN  /\ workbook' = ProjectPlanSheet(aggregated_json.tasks, columns)
                /\ excel_path' =
                     Str("output/project_plan_"
                         \o aggregated_json.project_info.project_type
                         \o ".xlsx")
                /\ UNCHANGED error_message
    /\ pc' = "END"
    /\ UNCHANGED << returned, graph, env, questionnaire_responses,
                    validation_result, enriched_prompt, plan_type,
                    orchestrator_plan, worker_outputs, aggregated_json,
                    futures, all_worker_outputs, total_tasks, completed,
                    calls >>

----------------------------------------------------------------------------
(* The pipeline *)

Next ==
    \/ QuestionnaireNode
    \/ ValidationNode
    \/ ErrorHandlerNode
    \/ PromptNode
    \/ OrchestratorNode
    \/ WorkersSubmit
    \/ \E i \in 1..Len(futures) : WorkerRun(i)
    \/ \E i \in 1..Len(futures) : Collect(i)
    \/ WorkersReturn
    \/ AggregatorNode
    \/ ExcelGeneratorNode

Spec == Init /\ [][Next]_vars

----------------------------------------------------------------------------
(* The aggregator on its own: aggregator_node applied to package-result    *)
(* mappings drawn from bounded sets, as category_worker_node may leave     *)
(* them (or absent / empty).                                               *)

\* the raw tasks a backend may return (task_name is added per position)
AggTemplates ==
    { [phase_name |-> "A", activity_name |-> "x", task_duration |-> "2 weeks"],
      [phase_name |-> "A", activity_name |-> "x", task_id |-> "T0099",
       predecessor |-> "T0077", successor |-> "T0088",
       dependency_type |-> "SS"],
      [activity_name |-> "x", task_duration |-> "1 month"],
      [phase_name |-> "A|b", activity_name |-> "c", task_duration |-> "0 weeks"],
      [phase_name |-> "A", activity_name |-> "b|c", task_duration |-> "3 Days"],
      [phase_name |-> "", task_duration |-> ""] }

AggTaskLists == UNION { [1..k -> AggTemplates] : k \in 0..MaxAggTasks }

Named(tasks, key) ==
    [i \in 1..Len(tasks) |->
       Put(tasks[i], "task_name", key \o "/" \o ToString(i))]

PackageOutput(key, name, tasks) ==
    << key, [package_name |-> name, tasks |-> Named(tasks, key),
             task_count |-> Len(tasks)] >>

\* one package, or two packages stored in the order opposite to sorted order
AggMappings ==
    { Dict(<< PackageOutput("worker_1", "A", s) >>) : s \in AggTaskLists }
    \cup
    UNION { { Dict(<< PackageOutput("worker_2", "A", SubSeq(s, 1, j)),
                      PackageOutput("worker_10", "B", SubSeq(s, j + 1, Len(s))) >>) :
                j \in 0..Len(s) } : s \in AggTaskLists }

AggPlan(ptype) ==
    [py |-> "dict", worker_prompts |-> EmptyDict, plan_type |-> ptype,
     min_tasks |-> IF ptype = "detailed" THEN 400 ELSE 100,
     num_workers |-> 0, tasks_per_worker |-> TasksPerWorker]

InitAgg ==
    /\ pc = "aggregator"
    /\ graph = "cli"
    /\ \E r \in {x \in ResponseChoices : x.location # ""} :
         /\ env = [responses |-> r, planner |-> Raises(""),
                   workers |-> << >>, today |-> Today]
         /\ questionnaire_responses = r
         /\ plan_type = IF r.plan_level = "Detailed Plan"
                        THEN Str("detailed") ELSE Str("high_level")
         /\ orchestrator_plan = AggPlan(IF r.plan_level = "Detailed Plan"
                                        THEN "detailed" ELSE "high_level")
    /\ validation_result = [is_valid |-> TRUE, errors |-> << >>]
    /\ enriched_prompt = Str("Plan")
    /\ worker_outputs \in AggMappings \cup {PyNone, EmptyDict}
    /\ aggregated_json = PyNone
    /\ excel_path = PyNone
    /\ error_message = PyNone
    /\ futures = << >>
    /\ all_worker_outputs = EmptyDict
    /\ total_tasks = 0
    /\ completed = 0
    /\ calls = {}
    /\ visited = << "questionnaire", "validation", "prompt", "orchestrator",
                    "category_workers" >>
    /\ returned = PyNone
    /\ workbook = PyNone

NextAgg ==
    \/ AggregatorNode
    \/ ExcelGeneratorNode

SpecAgg == InitAgg /\ [][NextAgg]_vars

----------------------------------------------------------------------------
(* The pipeline under the scheduling the code gives it: app.invoke runs    *)
(* the nodes one after the other, the as_completed loop takes every        *)
(* finished future, and the pool has a thread for every submitted call     *)
(* (max_workers = num_workers); that a started backend call returns or     *)
(* raises is the condition under which termination is claimed              *)

NodePositions ==
    {"questionnaire", "validation", "error_handler", "prompt", "orchestrator",
     "category_workers", "as_completed", "aggregator", "excel_generator", "END"}

\* the runner thread moves on: app.invoke enters the next node, or the
\* as_completed loop takes a finished future (completed += 1), or the loop
\* is exhausted and the node returns.  Stated on pc and completed alone, the
\* two variables every step of the runner changes one of
RunnerAdvance ==
    \/ /\ pc \notin {"as_completed", "END", "RAISED"}
       /\ \E p \in NodePositions \ {pc} : pc' = p
       /\ completed' = IF pc = "category_workers" THEN 0 ELSE completed
    \/ /\ pc = "as_completed"
       /\ AllCollected
       /\ pc' = "aggregator"
       /\ UNCHANGED completed
    \/ /\ pc = "as_completed"
       /\ \E i \in 1..Len(futures) : futures[i].state = "finished"
       /\ completed' = completed + 1
       /\ UNCHANGED pc

\* a started backend call returns or raises: the prompt of a running
\* future has been answered
BackendAdvance ==
    /\ pc = "as_completed"
    /\ \E i \in 1..Len(futures) :
          /\ futures[i].state = "running"
          /\ calls' = calls \cup {futures[i].worker_info.prompt}

\* the runs termination is checked on: a planner that raises, one whose
\* reply is cut short, and one that plans MaxPkgs packages, each backend
\* either raising or answering
LivePlannerReplies ==
    { Raises("rate limit"),
      Text(<< Prose, LBrace, Member("work_packages", << >>) >>),
      Text(<< Prose, Fence, Lang, LBrace,
              Member("work_packages",
                     [pos \in 1..MaxPkgs |-> Package(pos, 0)]),
              RBrace, Fence >>) }

LiveEnvs ==
    UNION { { [responses |-> r, planner |-> p, workers |-> w, today |-> Today] :
                w \in [Range(KeysOf(p)) -> {"raise", "fenced"}] } :
            r \in ResponseChoices, p \in LivePlannerReplies }

InitLive ==
    /\ pc = "questionnaire"
    /\ graph \in {"cli", "api"}
    /\ env \in LiveEnvs
    /\ InitialState

SpecLive ==
    /\ InitLive /\ [][Next]_vars
    /\ WF_<< pc, completed >>(RunnerAdvance)
    /\ WF_calls(BackendAdvance)

----------------------------------------------------------------------------
(* The pure functions applied on their own: parse_duration,                *)
(* calculate_project_start_date and the two copies of                      *)
(* extract_json_from_response, each called once on an input from a bounded *)
(* set; returned holds what the call gave back                             *)

\* the days "today" ranges over, from Tuesday 2026-12-22: every weekday
\* occurs, and the resolved dates cross the end of a month and of the year
TodaySpan == 14

FirstToday == DaysFromCivil(2026, 12, 22)

Todays == FirstToday..(FirstToday + TodaySpan - 1)

\* answers to the start-date question: the two named options, dates
\* strptime accepts, dates and words it rejects
StartDatePreferences ==
    {"Immediate", "Within 1 Month", "2027-03-15", "2026-2-3", "2026-02-30",
     "15/03/2027", "Custom Date", "immediate", ""}

\* task_duration strings: an optional lead, a number, a unit, a tail
DurationStrings ==
    {""} \cup
    { lead \o num \o unit \o tail :
        lead \in {"", "about ", "week "},
        num  \in {"", "0", "1", "2", "5", "12"},
        unit \in {"", " days", " week", " weeks", " Weeks", " month",
                  " MONTHS", " weeks per month", " months or weeks"},
        tail \in {"", " or 3"} }

\* pieces a backend reply is made of; pos tags the object a piece carries
MaxSegments == 3

SegmentKinds ==
    {"prose", "lbrace", "rbrace", "fence", "object", "fenced_object",
     "tagged_object", "fenced_text", "fenced_truncated", "fenced_array",
     "fenced_deep", "deep_object"}

Segment(kind, pos) ==
    LET obj == << LBrace, Member("tasks", OneTask(ToString(pos))), RBrace >>
    IN  CASE kind = "prose"            -> << Prose >>
          [] kind = "lbrace"           -> << LBrace >>
          [] kind = "rbrace"           -> << RBrace >>
          [] kind = "fence"            -> << Fence >>
          [] kind = "object"           -> obj
          [] kind = "fenced_object"    -> << Fence >> \o obj \o << Fence >>
          [] kind = "tagged_object"    -> << Fence, Lang >> \o obj \o << Fence >>
          [] kind = "fenced_text"      -> << Fence, Prose, Fence >>
          [] kind = "fenced_truncated" ->
                << Fence, Lang, LBrace,
                   Member("tasks", OneTask(ToString(pos))), Fence >>
          [] kind = "fenced_array"     -> << Fence, ArrayTok, Fence >>
          [] kind = "fenced_deep"      -> << Fence, Lang, DeepTok, Fence >>
          [] kind = "deep_object"      -> << LBrace, DeepMember, RBrace >>

RECURSIVE TextOf(_, _)
TextOf(kinds, n) ==
    IF n = 0 THEN << >>
    ELSE TextOf(kinds, n - 1) \o Segment(kinds[n], n)

ResponseTexts ==
    UNION { { TextOf(kinds, n) : kinds \in [1..n -> SegmentKinds] } :
            n \in 0..MaxSegments }

PureCalls ==
    { [fn |-> "parse_duration", duration_str |-> d] : d \in DurationStrings }
    \cup { [fn |-> "calculate_project_start_date",
            start_date_preference |-> p, today |-> t] :
           p \in StartDatePreferences, t \in Todays }
    \cup { [fn |-> f, response |-> r] :
           f \in {"workers.extract_json_from_response",
                  "orchestrator.extract_json_from_response"},
           r \in ResponseTexts }

InitPure ==
    /\ pc = "call"
    /\ graph = "cli"
    /\ env \in PureCalls
    /\ InitialState

Return(value) ==
    /\ returned' = value
    /\ pc' = "returned"
    /\ UNCHANGED << workbook, graph, env, questionnaire_responses,
                    validation_result, enriched_prompt, plan_type,
                    orchestrator_plan, worker_outputs, aggregated_json,
                    excel_path, error_message, futures, all_worker_outputs,
                    total_tasks, completed, calls, visited >>

CallParseDuration ==
    /\ pc = "call"
    /\ env.fn = "parse_duration"
    /\ Return(parse_duration(env.duration_str))

CallStartDate ==
    /\ pc = "call"
    /\ env.fn = "calculate_project_start_date"
    /\ Return(calculate_project_start_date(env.start_date_preference,
                                           env.today))

CallWorkerExtract ==
    /\ pc = "call"
    /\ env.fn = "workers.extract_json_from_response"
    /\ Return(extract_json_from_response(env.response))

CallOrchestratorExtract ==
    /\ pc = "call"
    /\ env.fn = "orchestrator.extract_json_from_response"
    /\ Return(orchestrator_extract_json(env.response))

NextPure ==
    \/ CallParseDuration
    \/ CallStartDate
    \/ CallWorkerExtract
    \/ CallOrchestratorExtract

SpecPure == InitPure /\ [][NextPure]_vars

----------------------------------------------------------------------------
(* Properties *)

\* the fields aggregator_node may write into a task
Rewritten ==
    {"phase_name", "task_id", "predecessor", "successor", "dependency_type",
     "task_start_date", "task_end_date", "task_duration"}

\* out is the raw task with nothing but those fields touched
SameTask(raw, out) ==
    \A f \in (DOMAIN raw) \ Rewritten : f \in DOMAIN out /\ out[f] = raw[f]

KeySet(outputs) == {outputs.items[i][1] : i \in 1..Len(outputs.items)}

\* the keys of a mapping listed in strictly ascending string order
AscendingKeys(outputs) ==
    CHOOSE ks \in [1..Len(outputs.items) -> KeySet(outputs)] :
        \A i, j \in 1..Len(outputs.items) : i < j => StrLess(ks[i], ks[j])

RECURSIVE RawConcat(_, _, _)
RawConcat(outputs, ks, n) ==
    IF n = 0 THEN << >>
    ELSE RawConcat(outputs, ks, n - 1) \o DictGet(outputs, ks[n]).tasks

NonEmptyMapping(m) == m # PyNone /\ m.items # << >>

Aggregated == aggregated_json # PyNone

\* C1: the aggregated task sequence is the concatenation of the packages'
\* task lists in ascending order of package key, every list in its own
\* order: position by position the plan holds the raw task of that
\* concatenation (nothing reordered, dropped or duplicated).
C1_FlattenInKeyOrder ==
    [][ (pc = "aggregator" /\ NonEmptyMapping(worker_outputs)
           /\ pc' = "excel_generator")
        => LET ks  == AscendingKeys(worker_outputs)
               raw == RawConcat(worker_outputs, ks, Len(ks))
               out == aggregated_json'.tasks
           IN  /\ Len(out) = Len(raw)
               /\ \A i \in 1..Len(raw) : SameTask(raw[i], out[i]) ]_vars

\* two packages stored as worker_2, worker_10 come out as worker_10's tasks
\* followed by worker_2's
C1_Witness ==
    /\ pc = "excel_generator"
    /\ Aggregated
    /\ Len(worker_outputs.items) = 2
    /\ worker_outputs.items[1][1] = "worker_2"
    /\ Len(worker_outputs.items[1][2].tasks) = 2
    /\ Len(worker_outputs.items[2][2].tasks) = 1
    /\ aggregated_json.tasks[1].task_name = "worker_10/1"
    /\ aggregated_json.tasks[2].task_name = "worker_2/1"
    /\ aggregated_json.tasks[3].task_name = "worker_2/2"

\* the mapping the dispatcher would store if it collected the results in
\* submission order
SubmittedOutputs ==
    Dict([i \in 1..Len(futures) |->
            << futures[i].worker_key,
               [package_name |-> futures[i].result.package_name,
                tasks |-> futures[i].result.tasks,
                task_count |-> futures[i].result.task_count] >>])

\* C2: the order in which the workers complete does not show in the plan:
\* whatever order the results were collected in, the aggregated tasks (ids,
\* links and dates included) are those obtained from the same results
\* collected in submission order.
C2_CompletionOrderIrrelevant ==
    (Aggregated /\ futures # << >>)
    => aggregated_json.tasks =
         AggregateTasks(SubmittedOutputs, plan_type.v,
                        questionnaire_responses, env.today)

\* a detailed plan whose two packages were collected in the reverse of the
\* submission order, which is not the sorted order either
C2_Witness ==
    /\ pc = "END"
    /\ Aggregated
    /\ aggregated_json.plan_type = "detailed"
    /\ Len(futures) = 2
    /\ all_worker_outputs.items[1][1] = futures[2].worker_key
    /\ StrLess(all_worker_outputs.items[2][1], all_worker_outputs.items[1][1])
    /\ \A i \in 1..2 : Len(futures[i].result.tasks) > 0

Digit(n) == ToString(n % 10)

\* "T" and the four decimal digits of i (i below 10000)
PaddedId(i) ==
    "T" \o Digit(i \div 1000) \o Digit(i \div 100) \o Digit(i \div 10)
        \o Digit(i)

\* C3: in both plan modes the task at 1-based position i of the aggregated
\* sequence carries task_id "T" followed by i padded with zeros to four
\* digits, whatever task_id the backend wrote; so the ids are unique and
\* dense.
C3_PositionalTaskIds ==
    Aggregated
    => \A i \in 1..Len(aggregated_json.tasks) :
         /\ "task_id" \in DOMAIN aggregated_json.tasks[i]
         /\ aggregated_json.tasks[i].task_id = PaddedId(i)

\* a high-level plan of three tasks whose second task came from the backend
\* with task_id T0099 (the raw task that names predecessor T0077)
C3_Witness ==
    /\ pc = "excel_generator"
    /\ Aggregated
    /\ aggregated_json.plan_type = "high_level"
    /\ Len(aggregated_json.tasks) = 3
    /\ Get(aggregated_json.tasks[2], "predecessor", "") = "T0077"
    /\ aggregated_json.tasks[2].task_id = "T0002"
    /\ aggregated_json.tasks[3].task_id = "T0003"

RECURSIVE ResultTasks(_)
\* the number of tasks in the results of the first n futures
ResultTasks(n) ==
    IF n = 0 THEN 0
    ELSE ResultTasks(n - 1) + Len(futures[n].result.tasks)

\* C4: the aggregated sequence has as many tasks as the package results
\* hold together, and the plan's total_tasks field is the length of that
\* sequence.
C4_TaskCount ==
    (Aggregated /\ futures # << >>)
    => /\ Len(aggregated_json.tasks) = ResultTasks(Len(futures))
       /\ aggregated_json.total_tasks = Len(aggregated_json.tasks)

\* a finished run whose two packages gave two tasks and one task
C4_Witness ==
    /\ pc = "END"
    /\ Aggregated
    /\ Len(futures) = 2
    /\ Len(futures[1].result.tasks) = 2
    /\ Len(futures[2].result.tasks) = 1
    /\ aggregated_json.total_tasks = 3

\* category_worker_node has submitted work and returned
Returned ==
    pc \in {"aggregator", "excel_generator", "END"} /\ futures # << >>

\* C5: the dispatcher returns only after every submitted worker has
\* finished, and then worker_outputs holds exactly one result for every
\* submitted package key and nothing else.
C5_ReturnsAfterAllWorkers ==
    Returned
    => /\ \A i \in 1..Len(futures) : futures[i].state = "collected"
       /\ worker_outputs # PyNone
       /\ Len(worker_outputs.items) = Len(futures)
       /\ \A i \in 1..Len(futures) :
            /\ Cardinality({j \in 1..Len(worker_outputs.items) :
                              worker_outputs.items[j][1] = futures[i].worker_key}) = 1
            /\ DictGet(worker_outputs, futures[i].worker_key).task_count
                 = futures[i].result.task_count
            /\ DictGet(worker_outputs, futures[i].worker_key).package_name
                 = futures[i].worker_info.package_name

\* the dispatcher has just returned from two workers, one of which failed
C5_Witness ==
    /\ pc = "aggregator"
    /\ Len(futures) = 2
    /\ futures[1].result.success
    /\ ~futures[2].result.success
    /\ DictKeys(worker_outputs) = << futures[2].worker_key, futures[1].worker_key >>

\* what the backend did with the prompt of future i
ReplyKind(i) == env.workers[futures[i].worker_key]

Done(i) == futures[i].state \in {"finished", "collected"}

\* the tasks the package of future i gives when its own call goes well
OwnTasks(i) ==
    CASE ReplyKind(i) = "fenced" -> TwoTasks(futures[i].worker_key)
      [] ReplyKind(i) = "bare" -> OneTask(futures[i].worker_key)
      [] OTHER -> << >>

RECURSIVE SuccessfulTasks(_)
SuccessfulTasks(n) ==
    IF n = 0 THEN 0
    ELSE SuccessfulTasks(n - 1)
         + (IF ReplyKind(n) = "raise" THEN 0 ELSE Len(OwnTasks(n)))

ReplyOf(i) == WorkerReply(ReplyKind(i), futures[i].worker_key)

\* no fenced block of the text and no first-brace-to-last-brace span of it
\* parses as JSON: json.loads rejects each with a JSONDecodeError
NoSpanParses(text) ==
    /\ \A b \in 1..Len(FencedBlocks(text)) :
         JsonLoads(FencedBlocks(text)[b]).kind = ""
    /\ BraceSpan(text).kind = ""

Malformed(i) == ~ReplyOf(i).raises /\ NoSpanParses(ReplyOf(i).content)

PlanningFailed ==
    "orchestrator_prompt" \in calls /\ KeysOf(env.planner) = << >>

PlanningMessage ==
    IF env.planner.raises THEN env.planner.msg ELSE "No work packages received"

\* C8: once planning has failed (the planner's call raised, or its reply
\* held no work package) no generation request is sent, nothing is
\* aggregated or rendered, and the error message stays the planning
\* failure's own message to the end of the run.
C8_PlanningFailureIsFinal ==
    PlanningFailed
    => /\ calls = {"orchestrator_prompt"}
       /\ ~Aggregated
       /\ excel_path = PyNone
       /\ error_message = Str("Orchestration failed: " \o PlanningMessage)

\* the mapping of package results is absent or has no entry
NoOutputs == IF worker_outputs = PyNone THEN TRUE ELSE worker_outputs.items = << >>

\* C9: the aggregator fails exactly when the mapping of package results is
\* absent or empty: it then sets the error "No worker outputs found" and
\* leaves aggregated_json as it was; with any non-empty mapping, even one
\* whose packages all hold no task, it sets no error and produces a plan.
C9_FailsIffNoOutputs ==
    [][ pc = "aggregator"
        => IF NoOutputs
           THEN /\ error_message' = Str("No worker outputs found")
                /\ aggregated_json' = aggregated_json
           ELSE /\ error_message' = error_message
                /\ aggregated_json' # PyNone
                /\ aggregated_json'.total_tasks = Len(aggregated_json'.tasks) ]_vars

\* the aggregator has run on an empty mapping
C9_Witness ==
    /\ pc = "excel_generator"
    /\ worker_outputs = EmptyDict
    /\ error_message = Str("No worker outputs found")
    /\ ~Aggregated

PhaseOf(task) == Get(task, "phase_name", "")

ActivityOf(task) == Get(task, "activity_name", "")

\* the positions of the plan whose task has the phase_name and the
\* activity_name of the task at position i
GroupOf(tasks, i) ==
    {j \in 1..Len(tasks) : /\ PhaseOf(tasks[j]) = PhaseOf(tasks[i])
                           /\ ActivityOf(tasks[j]) = ActivityOf(tasks[i])}

PlanIds(tasks) == {tasks[j].task_id : j \in 1..Len(tasks)}

\* the task at position i is chained to its neighbours in group G, and to
\* nothing of the plan where it has no neighbour
Chained(tasks, i, G) ==
    LET before == {j \in G : j < i}
        after  == {j \in G : j > i}
    IN  /\ IF before # {}
           THEN /\ Get(tasks[i], "predecessor", "") = tasks[SetMax(before)].task_id
                /\ Get(tasks[i], "dependency_type", "") = "FS"
           ELSE Get(tasks[i], "predecessor", "") \notin PlanIds(tasks)
        /\ IF after # {}
           THEN Get(tasks[i], "successor", "") = tasks[SetMin(after)].task_id
           ELSE Get(tasks[i], "successor", "") \notin PlanIds(tasks)

\* C10: in a detailed plan the tasks that share (phase_name, activity_name)
\* form a chain in sequence order: in a group of two or more, every member
\* after the first has the member before it as predecessor with
\* dependency_type "FS", every member before the last has the member after
\* it as successor, and linking gives the first no predecessor and the last
\* no successor.
C10_GroupChaining ==
    (Aggregated /\ aggregated_json.plan_type = "detailed")
    => LET tasks == aggregated_json.tasks
       IN  \A i \in 1..Len(tasks) :
             Cardinality(GroupOf(tasks, i)) >= 2
             => Chained(tasks, i, GroupOf(tasks, i))

LinkFields == {"predecessor", "successor", "dependency_type"}

DateFields == {"task_start_date", "task_end_date", "task_duration"}

\* field f is in out exactly as it is in raw: absent in both, or equal
KeepsField(raw, out, f) ==
    /\ (f \in DOMAIN raw) = (f \in DOMAIN out)
    /\ f \in DOMAIN raw => raw[f] = out[f]

\* C11: linking and scheduling belong to detailed mode and leave the rest
\* alone: in high_level mode aggregation changes no task's predecessor,
\* successor, dependency_type, task_start_date, task_end_date or
\* task_duration; in detailed mode a task that is the only one with its
\* (phase_name, activity_name) keeps its raw predecessor, successor and
\* dependency_type.
C11_FrameOfLinking ==
    [][ (pc = "aggregator" /\ NonEmptyMapping(worker_outputs)
           /\ pc' = "excel_generator")
        => LET ks  == AscendingKeys(worker_outputs)
               raw == RawConcat(worker_outputs, ks, Len(ks))
               out == aggregated_json'.tasks
           IN  \A i \in 1..Len(out) :
                 /\ aggregated_json'.plan_type = "high_level"
                      => \A f \in LinkFields \cup DateFields :
                           KeepsField(raw[i], out[i], f)
                 /\ (/\ aggregated_json'.plan_type = "detailed"
                     /\ Cardinality(GroupOf(out, i)) = 1)
                      => \A f \in LinkFields : KeepsField(raw[i], out[i], f) ]_vars

\* the day a "YYYY-MM-DD" string of the plan names
DayOf(date) == Strptime(date).day

\* the phase the scheduler files a task under
ScheduledPhase(task) == Get(task, "phase_name", "General")

DetailedPlan == Aggregated /\ aggregated_json.plan_type = "detailed"

\* C12: in a detailed plan the tasks of one phase never overlap: of two
\* tasks of a phase that follow each other among that phase's tasks, the
\* later starts no earlier than the earlier ends, whatever lies between.
C12_NoOverlapInPhase ==
    DetailedPlan
    => LET out == aggregated_json.tasks
       IN  \A i, j \in 1..Len(out) :
             (/\ i < j
              /\ ScheduledPhase(out[i]) = ScheduledPhase(out[j])
              /\ \A k \in (i + 1)..(j - 1) :
                   ScheduledPhase(out[k]) # ScheduledPhase(out[i]))
             => /\ Strptime(out[i].task_end_date).ok
                /\ Strptime(out[j].task_start_date).ok
                /\ DayOf(out[j].task_start_date) >= DayOf(out[i].task_end_date)

\* two tasks of phase A with a task of another phase between them, the
\* second starting the day the first ends
C12_Witness ==
    /\ pc = "excel_generator"
    /\ DetailedPlan
    /\ Len(aggregated_json.tasks) = 3
    /\ ScheduledPhase(aggregated_json.tasks[1]) = "A"
    /\ ScheduledPhase(aggregated_json.tasks[2]) = "A|b"
    /\ ScheduledPhase(aggregated_json.tasks[3]) = "A"
    /\ aggregated_json.tasks[1].task_end_date # aggregated_json.tasks[1].task_start_date
    /\ aggregated_json.tasks[3].task_start_date = aggregated_json.tasks[1].task_end_date

\* the day scheduling starts from: the resolved project start date
ResolvedStart ==
    DayOf(calculate_project_start_date(questionnaire_responses.start_date,
                                       env.today))

\* the latest of the start day and the end days of the first n tasks
LatestEnd(out, n, start) ==
    SetMax({start} \cup {DayOf(out[k].task_end_date) : k \in 1..n})

\* C13: in a detailed plan the global cursor after each scheduled task is
\* the latest of the resolved start date and all end dates computed so far
\* (so it never goes back), and the first task of a phase not seen before
\* starts at that cursor: no earlier than the end of any task before it.
C13_GlobalCursor ==
    DetailedPlan
    => LET out   == aggregated_json.tasks
           start == ResolvedStart
       IN  \A n \in 1..Len(out) :
             /\ ScheduleLoop(out, n, start).current_date
                  = LatestEnd(out, n, start)
             /\ LatestEnd(out, n, start) >= LatestEnd(out, n - 1, start)
             /\ (\A k \in 1..(n - 1) :
                   ScheduledPhase(out[k]) # ScheduledPhase(out[n]))
                => /\ DayOf(out[n].task_start_date)
                        = LatestEnd(out, n - 1, start)
                   /\ \A k \in 1..(n - 1) :
                        DayOf(out[n].task_start_date)
                          >= DayOf(out[k].task_end_date)

\* phase A|b ends at the start date, phase A then runs on, and a second
\* task of A|b ends before the cursor
C13_Witness ==
    /\ pc = "excel_generator"
    /\ DetailedPlan
    /\ Len(aggregated_json.tasks) = 3
    /\ ScheduledPhase(aggregated_json.tasks[1]) = "A|b"
    /\ ScheduledPhase(aggregated_json.tasks[2]) = "A"
    /\ ScheduledPhase(aggregated_json.tasks[3]) = "A|b"
    /\ DayOf(aggregated_json.tasks[3].task_end_date)
         < DayOf(aggregated_json.tasks[2].task_end_date)

\* C17: aggregation is idempotent: run again on the mapping as the first
\* run left it (same mode, same start-date preference, same today), the
\* aggregator gives the same tasks in the same order with the same ids,
\* phase names, links, durations and dates.
C17_Idempotent ==
    Aggregated
    => AggregateTasks(worker_outputs, plan_type.v, questionnaire_responses,
                      env.today)
         = aggregated_json.tasks

\* a detailed plan in which the first run filled in a missing duration and
\* chained two tasks
C17_Witness ==
    /\ pc = "excel_generator"
    /\ DetailedPlan
    /\ Len(worker_outputs.items) = 2
    /\ \E i, j \in 1..Len(aggregated_json.tasks) :
         /\ aggregated_json.tasks[i].task_duration = "5 days"
         /\ Get(aggregated_json.tasks[j], "predecessor", "")
              = aggregated_json.tasks[i].task_id
    /\ \E k \in 1..2 : \E t \in 1..Len(worker_outputs.items[k][2].tasks) :
         "task_end_date" \in DOMAIN worker_outputs.items[k][2].tasks[t]

\* a call of fn has returned
Applied(fn) == pc = "returned" /\ env.fn = fn

NoDigit(s) == \A i \in 1..Len(s) : CharAt(s, i) \notin DigitChars

\* the first integer found in the string
FirstInteger(s) == IntOf(FirstNumber(s))

\* C14: parse_duration gives 5 for an empty string or one with no integer;
\* otherwise the first integer of the string times 7 when the string
\* contains "week", times 30 when it contains "month", and else the integer
\* itself but at least 1.  The words are looked for whatever their case, and
\* a string with both words counts as weeks.  "2 weeks" gives 14, "1 month"
\* 30, "5 days" 5 and "" 5.
C14_ParseDuration ==
    Applied("parse_duration") =>
        LET s     == env.duration_str
            week  == Contains(Lower(s), "week")
            month == Contains(Lower(s), "month")
            n     == FirstInteger(s)
        IN  /\ NoDigit(s) => returned = 5
            /\ ~NoDigit(s) /\ week => returned = n * 7
            /\ ~NoDigit(s) /\ ~week /\ month => returned = n * 30
            /\ ~NoDigit(s) /\ ~week /\ ~month /\ n >= 1 => returned = n
            /\ ~NoDigit(s) /\ ~week /\ ~month /\ n < 1 => returned = 1
            /\ s = "2 weeks" => returned = 14
            /\ s = "1 month" => returned = 30
            /\ s = "5 days" => returned = 5
            /\ s = "" => returned = 5

C14_Witness ==
    /\ Applied("parse_duration")
    /\ env.duration_str = "about 2 weeks per month or 3"
    /\ returned = 14

\* the start-date answer is neither of the named options nor a date that
\* strptime accepts
Unparseable(preference) ==
    /\ preference \notin {"Immediate", "Within 1 Month"}
    /\ ~Strptime(preference).ok

\* C15: for "Immediate", and for an answer that is neither "Within 1 Month"
\* nor a parseable date, the resolved start date is the first Monday
\* strictly after today: a Monday 1 to 7 days after today, 5 days after a
\* Wednesday and 7 days after a Monday.
C15_ImmediateIsNextMonday ==
    ( /\ Applied("calculate_project_start_date")
      /\ \/ env.start_date_preference = "Immediate"
         \/ Unparseable(env.start_date_preference) ) =>
        \E d \in (env.today + 1)..(env.today + 7) :
            /\ returned = Strftime(d)
            /\ Weekday(d) = 0
            /\ Weekday(env.today) = 2 => d = env.today + 5
            /\ Weekday(env.today) = 0 => d = env.today + 7

C15_Witness ==
    /\ Applied("calculate_project_start_date")
    /\ env.start_date_preference = "2026-02-30"
    /\ Weekday(env.today) = 0
    /\ returned = Strftime(env.today + 7)

\* C16: for "Within 1 Month" the resolved start date is the first Monday on
\* or after today + 30: a Monday 30 to 36 days after today with no Monday
\* between today + 30 and it, and today + 30 itself when that is a Monday.
C16_WithinOneMonth ==
    ( /\ Applied("calculate_project_start_date")
      /\ env.start_date_preference = "Within 1 Month" ) =>
        \E d \in (env.today + 30)..(env.today + 36) :
            /\ returned = Strftime(d)
            /\ Weekday(d) = 0
            /\ \A e \in (env.today + 30)..(d - 1) : Weekday(e) # 0
            /\ Weekday(env.today + 30) = 0 => d = env.today + 30

C16_Witness ==
    /\ Applied("calculate_project_start_date")
    /\ env.start_date_preference = "Within 1 Month"
    /\ Weekday(env.today + 30) = 0
    /\ returned = Strftime(env.today + 30)

\* either copy of extract_json_from_response has returned
Extracted ==
    \/ Applied("workers.extract_json_from_response")
    \/ Applied("orchestrator.extract_json_from_response")

\* the fenced blocks of the text that parse as JSON, by position
ParsingBlocks(text) ==
    {i \in 1..Len(FencedBlocks(text)) : JsonLoads(FencedBlocks(text)[i]).ok}

\* an object in a fenced block with prose before and after it
FencedInProse(obj) == << Prose, Fence, Lang >> \o obj \o << Fence, Prose >>

\* the call r returned, and returned the value that json.loads gave as j
Gives(r, j) == r.ok /\ r.kind = j.kind /\ r.d = j.d

\* C18: extract_json_from_response returns the parse of the first fenced
\* block, in text order, that parses as JSON, skipping the blocks that do
\* not; only when no fenced block parses does it return the parse of the
\* span from the first "{" to the last "}"; an object in a fenced block
\* inside prose is extracted to the same value as the object alone.
C18_FirstParsingBlock ==
    Extracted =>
        LET text   == env.response
            blocks == FencedBlocks(text)
            good   == ParsingBlocks(text)
        IN  /\ good # {} => Gives(returned, JsonLoads(blocks[SetMin(good)]))
            /\ good = {} /\ BraceSpan(text).ok =>
                 Gives(returned, BraceSpan(text))
            /\ \A n \in 1..Len(text) :
                 LET obj == SubSeq(text, 1, n)
                 IN  JsonLoads(obj).ok =>
                       Gives(extract_json_from_response(FencedInProse(obj)),
                             extract_json_from_response(obj))

\* no fenced block and no brace span of the text is valid JSON
NoCandidateParses(text) ==
    /\ ParsingBlocks(text) = {}
    /\ ~BraceSpan(text).ok

\* the structure each copy falls back to: {"tasks": []} in workers.py and
\* {} in orchestrator.py
EmptyStructure ==
    IF env.fn = "workers.extract_json_from_response"
    THEN [k \in {"tasks"} |-> << >>] ELSE << >>

\* C19: extract_json_from_response raises for no input text; when every
\* candidate span is invalid or truncated JSON it returns the empty
\* structure, and the worker that called it ends with an empty task list.
C19_ExtractNeverRaises ==
    Extracted =>
        /\ returned.kind # "raise"
        /\ NoCandidateParses(env.response) =>
             /\ returned.ok
             /\ returned.d = EmptyStructure
             /\ process_single_worker("worker_1", [package_name |-> "P"],
                                      Text(env.response)).tasks = << >>

\* the work packages of the planner's reply
PlannedPackages ==
    IF env.planner.raises THEN << >>
    ELSE LET work_plan == orchestrator_extract_json(env.planner.content)
         IN  IF work_plan.kind = "dict"
             THEN Get(work_plan.d, "work_packages", << >>) ELSE << >>

\* C20: once the orchestrator has stored its plan, worker_prompts has one
\* entry for every work package of the planner's reply, and every package's
\* name is the package_name of some entry (none was overwritten), also when
\* packages lack an id or share one.
C20_OnePromptPerPackage ==
    orchestrator_plan # PyNone =>
        /\ Len(orchestrator_plan.worker_prompts.items) = Len(PlannedPackages)
        /\ orchestrator_plan.num_workers = Len(PlannedPackages)
        /\ \A i \in 1..Len(PlannedPackages) :
             \E j \in 1..Len(orchestrator_plan.worker_prompts.items) :
                orchestrator_plan.worker_prompts.items[j][2].package_name
                  = Get(PlannedPackages[i], "name", "")

\* C21: a per-package result is never changed after the dispatcher stored
\* it: the aggregator, in either mode, leaves worker_outputs, with every
\* task record of every package, as category_worker_node returned it.
C21_OutputsNeverMutated ==
    [][AggregatorNode => worker_outputs' = worker_outputs]_vars

\* for every task of RawConcat, the name of the package it came from
RECURSIVE OwnerConcat(_, _, _)
OwnerConcat(outputs, ks, n) ==
    IF n = 0 THEN << >>
    ELSE OwnerConcat(outputs, ks, n - 1) \o
         [i \in 1..Len(DictGet(outputs, ks[n]).tasks) |->
            DictGet(outputs, ks[n]).package_name]

NoPhase(task) == "phase_name" \notin DOMAIN task \/ task.phase_name = ""

\* C22: after aggregation a task whose raw content had no phase_name
\* (absent or empty) has its own package's name as phase_name, and a task
\* that had a phase_name keeps it.
C22_PhaseBackfill ==
    [][ (pc = "aggregator" /\ NonEmptyMapping(worker_outputs)
           /\ pc' = "excel_generator")
        => LET ks    == AscendingKeys(worker_outputs)
               raw   == RawConcat(worker_outputs, ks, Len(ks))
               owner == OwnerConcat(worker_outputs, ks, Len(ks))
               out   == aggregated_json'.tasks
           IN  \A i \in 1..Len(raw) :
                 /\ "phase_name" \in DOMAIN out[i]
                 /\ out[i].phase_name = IF NoPhase(raw[i]) THEN owner[i]
                                        ELSE raw[i].phase_name ]_vars

\* package B gave a task without phase_name and a task with one, package A
\* a task with an empty phase_name
C22_Witness ==
    /\ pc = "excel_generator"
    /\ Aggregated
    /\ Len(aggregated_json.tasks) = 3
    /\ aggregated_json.tasks[1].task_name = "worker_10/1"
    /\ aggregated_json.tasks[1].phase_name = "B"
    /\ aggregated_json.tasks[2].task_name = "worker_10/2"
    /\ aggregated_json.tasks[2].phase_name = "A|b"
    /\ aggregated_json.tasks[3].task_name = "worker_2/1"
    /\ aggregated_json.tasks[3].phase_name = "A"
    /\ "task_duration" \in DOMAIN aggregated_json.tasks[3]
    /\ aggregated_json.tasks[3].task_duration \in {"", "5 days"}

HighLevelColumnSet ==
    {"Phase Name", "Activity Name", "Task Name", "Task Category",
     "Task Duration"}

TenDetailedColumns ==
    {"Task Start Date", "Task End Date", "Work Quantity", "Work Rate",
     "Work UOM", "Task Description", "Priority", "Predecessor",
     "Dependency Type", "Successor"}

\* C23: the columns of the rendered sheet are fixed per mode: the five
\* high-level columns in high_level mode, and those five plus the ten
\* detailed columns in detailed mode, so that every high-level column is
\* also a detailed column.
C23_DetailedExtendsHighLevel ==
    workbook # PyNone =>
        Range(workbook.header) =
            IF aggregated_json.plan_type = "detailed"
            THEN HighLevelColumnSet \cup TenDetailedColumns
            ELSE HighLevelColumnSet

Visited(node) == \E i \in 1..Len(visited) : visited[i] = node

\* C24: validation gates the core in every graph the repository builds:
\* for responses whose validation_result has is_valid false, neither the
\* orchestrator nor the workers nor the aggregator is ever executed, and no
\* spreadsheet is produced.
C24_ValidationGatesCore ==
    (validation_result # PyNone /\ ~validation_result.is_valid) =>
        /\ ~Visited("orchestrator")
        /\ ~Visited("category_workers")
        /\ ~Visited("aggregator")
        /\ excel_path = PyNone
        /\ workbook = PyNone

\* the positions of the members of the g-th group of phase_groups
MembersOf(groups, g) ==
    {groups.items[g][2][m][1] : m \in 1..Len(groups.items[g][2])}

\* C25: add_task_identifiers puts two tasks in the same link group exactly
\* when they have equal phase_name and equal activity_name (a missing name
\* counting as empty), whatever the names contain; the groups are in the
\* order in which their first members appear and the members of a group in
\* sequence order.
C25_GroupsByPhaseAndActivity ==
    (Aggregated /\ aggregated_json.plan_type = "detailed") =>
        LET tasks  == aggregated_json.tasks
            groups == PhaseGroups(tasks, Len(tasks))
        IN  /\ \A i, j \in 1..Len(tasks) :
                 (\E g \in 1..Len(groups.items) :
                     {i, j} \subseteq MembersOf(groups, g))
                 <=> j \in GroupOf(tasks, i)
            /\ \A g \in 1..Len(groups.items) :
                 LET members == groups.items[g][2]
                 IN  /\ \A m \in 1..(Len(members) - 1) :
                           members[m][1] < members[m + 1][1]
                     /\ g > 1 => groups.items[g - 1][2][1][1] < members[1][1]

\* two calls ended the same way: both raised, or both returned the same
\* value
SameOutcome(a, b) == a.kind = b.kind /\ a.ok = b.ok /\ a.d = b.d

\* C26: the two copies of extract_json_from_response are one utility: on
\* every text each returns what the other returns, also when no candidate
\* span parses.
C26_CopiesAgree ==
    /\ Applied("workers.extract_json_from_response") =>
         SameOutcome(returned, orchestrator_extract_json(env.response))
    /\ Applied("orchestrator.extract_json_from_response") =>
         SameOutcome(returned, extract_json_from_response(env.response))

\* the sum of task_count over the entries of a mapping
RECURSIVE CountSum(_, _)
CountSum(outputs, n) ==
    IF n = 0 THEN 0
    ELSE CountSum(outputs, n - 1) + outputs.items[n][2].task_count

\* the step is pool thread i finishing its call
WorkerStep(i) ==
    futures[i].state = "running" /\ futures'[i].state = "finished"

\* the step is the node's own thread taking future i from as_completed
CollectStep(i) ==
    futures[i].state = "finished" /\ futures'[i].state = "collected"

\* C27: during dispatch a worker writes its own result and nothing else:
\* the other results, the shared mapping and the counters completed and
\* total_tasks are left alone by every worker step and are written by the
\* collecting thread only; every key's slot of the mapping is written once;
\* at return total_tasks is the sum of task_count over all packages.
C27_WorkersWriteOwnResult ==
    [][ pc = "as_completed" =>
        /\ \A i \in 1..Len(futures) :
             WorkerStep(i) =>
               /\ \A j \in 1..Len(futures) : j # i => futures'[j] = futures[j]
               /\ futures'[i].worker_key = futures[i].worker_key
               /\ futures'[i].result.worker_key = futures[i].worker_key
               /\ all_worker_outputs' = all_worker_outputs
               /\ worker_outputs' = worker_outputs
               /\ completed' = completed
               /\ total_tasks' = total_tasks
        /\ \A i \in 1..Len(futures) :
             CollectStep(i) =>
               /\ \A j \in 1..Len(futures) :
                    futures'[j].result = futures[j].result
               /\ futures[i].worker_key \notin KeySet(all_worker_outputs)
               /\ Len(all_worker_outputs'.items)
                    = Len(all_worker_outputs.items) + 1
               /\ \A n \in 1..Len(all_worker_outputs.items) :
                    all_worker_outputs'.items[n] = all_worker_outputs.items[n]
               /\ all_worker_outputs'.items[Len(all_worker_outputs'.items)][1]
                    = futures[i].worker_key
               /\ completed' = completed + 1
        /\ pc' = "aggregator" =>
               /\ completed = Len(futures)
               /\ Len(worker_outputs'.items) = Len(futures)
               /\ total_tasks = CountSum(worker_outputs',
                                         Len(worker_outputs'.items)) ]_vars

\* two packages: the second is collected and its two tasks are counted, the
\* first has finished and is not collected yet
C27_Witness ==
    /\ pc = "as_completed"
    /\ Len(futures) = 2
    /\ futures[1].state = "finished"
    /\ futures[2].state = "collected"
    /\ futures[2].result.task_count = 2
    /\ total_tasks = 2
    /\ completed = 1
    /\ Len(all_worker_outputs.items) = 1

\* the task was written by the backend for the package stored under key
\* (the backends of the model put the key in front of the task's name)
FromPackage(task, key) ==
    /\ Len(task.task_name) > Len(key)
    /\ SubSeq(task.task_name, 1, Len(key) + 1) = key \o "/"

\* the numeric ids the planner gave its packages
PlannedIds ==
    {PlannedPackages[p].id :
        p \in {q \in 1..Len(PlannedPackages) :
                 "id" \in DOMAIN PlannedPackages[q]}}

\* C28: packages are merged in ascending order of their numeric id: for
\* planner ids a < b, every task of package worker_a comes before every
\* task of package worker_b in the aggregated plan.
C28_MergedInNumericOrder ==
    Aggregated =>
        \A a, b \in PlannedIds :
            a < b =>
              \A i, j \in 1..Len(aggregated_json.tasks) :
                 ( /\ FromPackage(aggregated_json.tasks[i],
                                  "worker_" \o ToString(a))
                   /\ FromPackage(aggregated_json.tasks[j],
                                  "worker_" \o ToString(b)) )
                 => i < j

\* C29: in a detailed plan every task lasts at least one day, whatever
\* task_duration the backend wrote: its end date is strictly later than
\* its start date; and the first task of the plan starts on the resolved
\* project start date.
C29_EveryTaskLastsADay ==
    DetailedPlan =>
        LET out == aggregated_json.tasks
        IN  /\ \A i \in 1..Len(out) :
                 DayOf(out[i].task_end_date) > DayOf(out[i].task_start_date)
            /\ Len(out) > 0 => DayOf(out[1].task_start_date) = ResolvedStart

\* the backend call of the i-th submitted package is in progress
Running(i) == futures[i].state = "running"

NoNodeTwice ==
    \A i, j \in 1..Len(visited) : i # j => visited[i] # visited[j]

====
